---- MODULE Spec2Model ----
(***************************************************************************)
(* Admin protocol handlers of acapy_plugin_toolbox (invitations.py and     *)
(* issuer.py) as a state machine.  Every handler invocation runs in a      *)
(* handler slot p; it advances from one await of the coroutine to the      *)
(* next.  The collaborators (record stores, managers, responder) are the   *)
(* environment: the stores are state, what the managers return is chosen   *)
(* nondeterministically, and everything the handler hands to a             *)
(* collaborator or to the responder is appended to out[p] in program order.*)
(***************************************************************************)
EXTENDS Integers, Sequences, FiniteSets, TLC

\* ------------------------------------------------------------------ bounds
InitConns == 3       \* connection records in the store at start
MaxConns == 4        \* connection records the store may hold
MaxExch == 1         \* exchange records the two managers may add in all

\* ------------------------------------------------------- values of the model
None == "<None>"                  \* Python None: attribute of an absent field
NoThread == "<no-thread>"         \* a message nobody assigned a thread to
Procs == {1}                      \* handler slots
MsgIds == {"req-1", "req-2"}
IdNames == <<"conn-1", "conn-2", "conn-3", "conn-4", "conn-5", "conn-6", "conn-7">>
UnknownId == "conn-x"             \* an id no record ever has
\* connection ids a request names: a record that is not ready, one that is
\* ready, and no record
RequestConnIds == {IdNames[1], IdNames[3], UnknownId}
GenNonces == {"731", "948"}       \* values str(uuid4().int) may produce
RequestNonces == {"", "55", "731"}

VARIABLES
    conns,      \* ConnectionRecord store, in query order
    exch,       \* exchange record stores: exch.cred, exch.pres
    pc,         \* pc[p]: where the invocation in slot p stands
    ctx,        \* ctx[p]: RequestContext: the message and whether the sender is an admin
    loc,        \* loc[p]: local variables of handle()
    out         \* out[p]: collaborator calls and responder sends, in order

vars == <<conns, exch, pc, ctx, loc, out>>

\* ------------------------------------------------------------ message types
ISSUER_SEND_CREDENTIAL == "send-credential"
ISSUER_REQUEST_PRESENTATION == "request-presentation"
ISSUER_ISSUER_CRED_EXCHANGE == "credential-exchange"
ISSUER_ISSUER_PRES_EXCHANGE == "presentation-exchange"
ISSUER_CREDENTIALS_GET_LIST == "credentials-get-list"
ISSUER_CREDENTIALS_LIST == "credentials-list"
ISSUER_PRESENTATIONS_GET_LIST == "presentations-get-list"
ISSUER_PRESENTATIONS_LIST == "presentations-list"
INVITATIONS_INVITATION_GET_LIST == "get-list"
INVITATIONS_INVITATION_LIST == "list"
INVITATIONS_CREATE_INVITATION == "create"
INVITATIONS_INVITATION == "invitation"
PROBLEM_REPORT == "problem-report"
CREDENTIAL_OFFER == "offer-credential"
PRESENTATION_REQUEST == "request-presentation-to-peer"

ACCEPT_AUTO == "auto"
ACCEPT_NONE == "none"
INVITATION_MODE_MULTI == "multi"
INVITATION_MODE_ONCE == "once"
ROLE_ISSUER == "issuer"
ROLE_HOLDER == "holder"
ROLE_VERIFIER == "verifier"
ROLE_PROVER == "prover"

\* ------------------------------------------------------------------ events
\* a collaborator call made by the handler
Call(name, arg) ==
    [ev |-> "call", what |-> name, to |-> None, thid |-> NoThread, body |-> arg]
\* responder.send(message, connection_id=to)
Send(type, to, body) ==
    [ev |-> "send", what |-> type, to |-> to, thid |-> NoThread, body |-> body]
\* responder.send_reply(message): message is [type, thid, body]
SendReply(message) ==
    [ev |-> "reply", what |-> message.type, to |-> None,
     thid |-> message.thid, body |-> message.body]

\* a freshly constructed message carries no thread
NewMessage(type, body) == [type |-> type, thid |-> NoThread, body |-> body]
\* message.assign_thread_from(request): the reply takes the request's thread,
\* which for a request that starts a thread is the request's id
assign_thread_from(message, request) == [message EXCEPT !.thid = request.id]

ProblemReport(explain_ltxt, who_retries) ==
    NewMessage(PROBLEM_REPORT,
               [explain_ltxt |-> explain_ltxt, who_retries |-> who_retries])

\* --------------------------------------------------------------- the stores
\* FilterNotNone keeping the truthy values only (lambda item: item[1])
Mut_FilterNotNone(d) ==
    LET keep == {k \in DOMAIN d : d[k] # None /\ d[k] # ""}
    IN  [k \in keep |-> d[k]]

\* filter(lambda item: item[1] is not None, d.items()) rebuilt as a dict
FilterNotNone(d) ==
    LET keep == {k \in DOMAIN d : d[k] # None}
    IN  [k \in keep |-> d[k]]

\* BaseRecord.query(context, tag_filter, post_filter): the records matching
\* every key of the post filter, in store order
Matches(r, post_filter) == \A k \in DOMAIN post_filter : r[k] = post_filter[k]
Query(store, post_filter) == SelectSeq(store, LAMBDA r : Matches(r, post_filter))

\* ConnectionRecord.retrieve_by_id: <<record>>, or <<>> for StorageNotFoundError
retrieve_by_id(store, connection_id) ==
    LET hit == SelectSeq(store, LAMBDA r : r.connection_id = connection_id)
    IN  IF hit = <<>> THEN <<>> ELSE <<hit[1]>>

\* the connection records at start: an open invitation, an invitation-state
\* record whose invitation is gone from storage, an active connection, ...
InitialRecord(i) ==
    CASE i % 3 = 1 ->
           [connection_id |-> IdNames[i], state |-> "invitation", is_ready |-> FALSE,
            accept |-> ACCEPT_AUTO, invitation_mode |-> INVITATION_MODE_ONCE,
            has_invitation |-> TRUE]
      [] i % 3 = 2 ->
           [connection_id |-> IdNames[i], state |-> "invitation", is_ready |-> FALSE,
            accept |-> ACCEPT_NONE, invitation_mode |-> INVITATION_MODE_MULTI,
            has_invitation |-> FALSE]
      [] i % 3 = 0 ->
           [connection_id |-> IdNames[i], state |-> "active", is_ready |-> TRUE,
            accept |-> ACCEPT_AUTO, invitation_mode |-> INVITATION_MODE_ONCE,
            has_invitation |-> FALSE]
InitialConnections == [i \in 1 .. InitConns |-> InitialRecord(i)]

InitialCredExchanges ==
    << [role |-> ROLE_HOLDER, connection_id |-> IdNames[1],
        credential_definition_id |-> "cd-1", schema_id |-> "sch-1"],
       [role |-> ROLE_ISSUER, connection_id |-> IdNames[1],
        credential_definition_id |-> "cd-1", schema_id |-> "sch-1"] >>
InitialPresExchanges ==
    << [role |-> ROLE_PROVER, connection_id |-> IdNames[1], verified |-> "true"],
       [role |-> ROLE_VERIFIER, connection_id |-> IdNames[1], verified |-> "true"] >>

\* ------------------------------------------------------------------ locals
NoLocals ==
    [connection_record |-> <<>>, payload |-> <<>>, exchange_record |-> <<>>,
     records |-> <<>>, results |-> <<>>]
NoMessage == [type |-> None, id |-> None]

Init ==
    /\ conns = InitialConnections
    /\ exch = [cred |-> InitialCredExchanges, pres |-> InitialPresExchanges]
    /\ pc = [p \in Procs |-> "idle"]
    /\ ctx = [p \in Procs |-> [message |-> NoMessage, admin |-> FALSE]]
    /\ loc = [p \in Procs |-> NoLocals]
    /\ out = [p \in Procs |-> <<>>]


\* --------------------------------------------------------------- requests
\* A message is the record of the attributes the handler reads from
\* context.message; an optional field the request does not carry reads as None.
\* Fields the handlers only pass through to a collaborator or echo (label,
\* alias, role, comment, the credential preview and the cred def tags) are
\* left out.  proof_request is a dict: its domain is the keys it has.
ProofRequests ==
    {[name |-> "proof-req"]} \cup
    {[name |-> "proof-req", nonce |-> n] : n \in RequestNonces}

CreateInvitationRequests ==
    [type : {INVITATIONS_CREATE_INVITATION}, id : MsgIds,
     auto_accept : BOOLEAN, multi_use : BOOLEAN]
InvitationGetListRequests ==
    [type : {INVITATIONS_INVITATION_GET_LIST}, id : MsgIds]
SendCredRequests ==
    [type : {ISSUER_SEND_CREDENTIAL}, id : MsgIds,
     connection_id : RequestConnIds]
RequestPresRequests ==
    [type : {ISSUER_REQUEST_PRESENTATION}, id : MsgIds,
     connection_id : RequestConnIds, proof_request : ProofRequests]
CredGetListRequests ==
    [type : {ISSUER_CREDENTIALS_GET_LIST}, id : MsgIds,
     connection_id : {None, "", IdNames[1]}, cred_def_id : {None, "cd-1"},
     schema_id : {None, "sch-1"}]
PresGetListRequests ==
    [type : {ISSUER_PRESENTATIONS_GET_LIST}, id : MsgIds,
     connection_id : {None, "", IdNames[1]}, verified : {None, "true"}]

Requests ==
    CreateInvitationRequests \cup InvitationGetListRequests \cup SendCredRequests
        \cup RequestPresRequests \cup CredGetListRequests \cup PresGetListRequests

\* -------------------------------------------------------- authorization gate
\* AdminOnlyHandlers with the decorator left off CredGetListHandler.handle
Mut_AdminOnlyHandlers ==
    {INVITATIONS_CREATE_INVITATION, INVITATIONS_INVITATION_GET_LIST,
     ISSUER_SEND_CREDENTIAL, ISSUER_REQUEST_PRESENTATION,
     ISSUER_PRESENTATIONS_GET_LIST}

\* the handlers whose handle() carries @admin_only
AdminOnlyHandlers ==
    {INVITATIONS_CREATE_INVITATION, INVITATIONS_INVITATION_GET_LIST,
     ISSUER_SEND_CREDENTIAL, ISSUER_REQUEST_PRESENTATION,
     ISSUER_CREDENTIALS_GET_LIST, ISSUER_PRESENTATIONS_GET_LIST}

\* first statement of each handler body: the step the invocation starts with
FirstStep(type) ==
    CASE type = INVITATIONS_CREATE_INVITATION -> "create_invitation"
      [] type = INVITATIONS_INVITATION_GET_LIST -> "query"
      [] type = ISSUER_SEND_CREDENTIAL -> "lookup"
      [] type = ISSUER_REQUEST_PRESENTATION -> "lookup"
      [] type = ISSUER_CREDENTIALS_GET_LIST -> "query"
      [] type = ISSUER_PRESENTATIONS_GET_LIST -> "query"

\* admin_only(func): runs func for an admin sender; for any other sender the
\* body does not run and nothing is sent
admin_only(type, admin) ==
    IF type \in AdminOnlyHandlers /\ ~admin THEN "dropped" ELSE FirstStep(type)

Terminal == {"idle", "done", "dropped", "raised"}
Running(type) ==
    Cardinality({q \in DOMAIN pc : pc[q] \notin Terminal /\ ctx[q].message.type = type})

\* exchange records the managers have added so far
Added ==
    (Len(exch.cred) - Len(InitialCredExchanges))
        + (Len(exch.pres) - Len(InitialPresExchanges))

\* the dispatcher hands an inbound message to its handler in a free slot
ReceiveFrom(p, requests) ==
    /\ pc[p] \in Terminal
    /\ \E message \in requests, admin \in BOOLEAN :
        /\ message.type = INVITATIONS_CREATE_INVITATION
              => Len(conns) + Running(message.type) < MaxConns
        /\ message.type \in {ISSUER_SEND_CREDENTIAL, ISSUER_REQUEST_PRESENTATION}
              => Added + Running(ISSUER_SEND_CREDENTIAL)
                    + Running(ISSUER_REQUEST_PRESENTATION) < MaxExch
        /\ ctx' = [ctx EXCEPT ![p] = [message |-> message, admin |-> admin]]
        /\ pc' = [pc EXCEPT ![p] = admin_only(message.type, admin)]
    /\ loc' = [loc EXCEPT ![p] = NoLocals]
    /\ out' = [out EXCEPT ![p] = <<>>]
    /\ UNCHANGED <<conns, exch>>

Receive(p) == ReceiveFrom(p, Requests)

At(p, type, step) == pc[p] = step /\ ctx[p].message.type = type

\* ------------------------------------------------------ CreateInvitation
\* InvitationResponse echoing the request's booleans
Mut_InvitationResponse(message, connection) ==
    NewMessage(INVITATIONS_INVITATION,
               [id |-> connection.connection_id,
                auto_accept |-> message.auto_accept,
                multi_use |-> message.multi_use])

\* the Invitation reply built from the created connection record
InvitationResponse(message, connection) ==
    NewMessage(INVITATIONS_INVITATION,
               [id |-> connection.connection_id,
                auto_accept |-> (connection.accept = ACCEPT_AUTO),
                multi_use |-> (connection.invitation_mode = INVITATION_MODE_MULTI)])

CreateInvitation_Create(p) ==
    /\ At(p, INVITATIONS_CREATE_INVITATION, "create_invitation")
    /\ Len(conns) < Len(IdNames)
    /\ LET message == ctx[p].message
           args == [auto_accept |-> IF message.auto_accept THEN "auto" ELSE "none",
                    multi_use |-> message.multi_use, public |-> FALSE]
       IN  \E accept \in {ACCEPT_AUTO, ACCEPT_NONE},
              mode \in {INVITATION_MODE_ONCE, INVITATION_MODE_MULTI} :
             LET connection ==
                   [connection_id |-> IdNames[Len(conns) + 1], state |-> "invitation",
                    is_ready |-> FALSE, accept |-> accept, invitation_mode |-> mode,
                    has_invitation |-> TRUE]
             IN  /\ conns' = Append(conns, connection)
                 /\ loc' = [loc EXCEPT ![p].connection_record = <<connection>>]
                 /\ out' = [out EXCEPT ![p] = Append(@, Call("create_invitation", args))]
    /\ pc' = [pc EXCEPT ![p] = "send_reply"]
    /\ UNCHANGED <<exch, ctx>>

CreateInvitation_SendReply(p) ==
    /\ At(p, INVITATIONS_CREATE_INVITATION, "send_reply")
    /\ LET invite_response ==
             assign_thread_from(
                 InvitationResponse(ctx[p].message, loc[p].connection_record[1]),
                 ctx[p].message)
       IN  out' = [out EXCEPT ![p] = Append(@, SendReply(invite_response))]
    /\ pc' = [pc EXCEPT ![p] = "done"]
    /\ UNCHANGED <<conns, exch, ctx, loc>>

\* ----------------------------------------------------- InvitationGetList
InvitationPostFilter == FilterNotNone([state |-> "invitation"])

\* InviteResults without the except branch's continue
Mut_InviteResults(results, connection) ==
    Append(results,
           [id |-> connection.connection_id,
            auto_accept |-> (connection.accept = ACCEPT_AUTO),
            multi_use |-> (connection.invitation_mode = INVITATION_MODE_MULTI)])

\* one pass of the loop body: results after looking at connection
InviteResults(results, connection) ==
    IF ~connection.has_invitation
    THEN results                                  \* StorageNotFoundError: continue
    ELSE Append(results,
                [id |-> connection.connection_id,
                 auto_accept |-> (connection.accept = ACCEPT_AUTO),
                 multi_use |-> (connection.invitation_mode = INVITATION_MODE_MULTI)])

InvitationGetList_Query(p) ==
    /\ At(p, INVITATIONS_INVITATION_GET_LIST, "query")
    /\ LET records == Query(conns, InvitationPostFilter)
       IN  /\ loc' = [loc EXCEPT ![p].records = records, ![p].results = <<>>]
           /\ out' = [out EXCEPT ![p] =
                        Append(@, Call("ConnectionRecord.query", InvitationPostFilter))]
           /\ pc' = [pc EXCEPT ![p] =
                        IF records = <<>> THEN "send_reply" ELSE "retrieve_invitation"]
    /\ UNCHANGED <<conns, exch, ctx>>

\* InvitationGetList_RetrieveInvitation deleting the connection record whose
\* invitation is gone
Mut_InvitationGetList_RetrieveInvitation(p) ==
    /\ At(p, INVITATIONS_INVITATION_GET_LIST, "retrieve_invitation")
    /\ LET connection == Head(loc[p].records)
           rest == Tail(loc[p].records)
       IN  /\ loc' = [loc EXCEPT ![p].records = rest,
                                 ![p].results = InviteResults(@, connection)]
           /\ out' = [out EXCEPT ![p] =
                        Append(@, Call("retrieve_invitation", connection.connection_id))]
           /\ pc' = [pc EXCEPT ![p] =
                        IF rest = <<>> THEN "send_reply" ELSE "retrieve_invitation"]
           /\ conns' = IF connection.has_invitation THEN conns
                       ELSE SelectSeq(conns, LAMBDA r :
                                r.connection_id # connection.connection_id)
    /\ UNCHANGED <<exch, ctx>>

InvitationGetList_RetrieveInvitation(p) ==
    /\ At(p, INVITATIONS_INVITATION_GET_LIST, "retrieve_invitation")
    /\ LET connection == Head(loc[p].records)
           rest == Tail(loc[p].records)
       IN  /\ loc' = [loc EXCEPT ![p].records = rest,
                                 ![p].results = InviteResults(@, connection)]
           /\ out' = [out EXCEPT ![p] =
                        Append(@, Call("retrieve_invitation", connection.connection_id))]
           /\ pc' = [pc EXCEPT ![p] =
                        IF rest = <<>> THEN "send_reply" ELSE "retrieve_invitation"]
    /\ UNCHANGED <<conns, exch, ctx>>

InvitationGetList_SendReply(p) ==
    /\ At(p, INVITATIONS_INVITATION_GET_LIST, "send_reply")
    /\ LET invitation_list ==
             assign_thread_from(
                 NewMessage(INVITATIONS_INVITATION_LIST, loc[p].results), ctx[p].message)
       IN  out' = [out EXCEPT ![p] = Append(@, SendReply(invitation_list))]
    /\ pc' = [pc EXCEPT ![p] = "done"]
    /\ UNCHANGED <<conns, exch, ctx, loc>>


\* -------------------------------------------------------------- SendCred
\* SendCredGuard with the two explain texts exchanged
Mut_SendCredGuard(message, connection_record) ==
    IF connection_record = <<>>
    THEN <<assign_thread_from(ProblemReport("Connection invalid.", "none"), message)>>
    ELSE IF ~connection_record[1].is_ready
    THEN <<assign_thread_from(ProblemReport("Connection not found.", "none"), message)>>
    ELSE <<>>

\* try/except around retrieve_by_id and the is_ready test: the Problem Report
\* to reply with, <<report>>, or <<>> when the handler goes on.
\* connection_record is <<>> when retrieve_by_id raised StorageNotFoundError.
SendCredGuard(message, connection_record) ==
    IF connection_record = <<>>
    THEN <<assign_thread_from(ProblemReport("Connection not found.", "none"), message)>>
    ELSE IF ~connection_record[1].is_ready
    THEN <<assign_thread_from(ProblemReport("Connection invalid.", "none"), message)>>
    ELSE <<>>

\* SendCredAfter replying to the caller before sending the offer
Mut_SendCredAfter(step) ==
    CASE step = "lookup" -> "prepare_send"
      [] step = "prepare_send" -> "send_reply"
      [] step = "send_reply" -> "send"
      [] step = "send" -> "done"

\* statement order of SendCredHandler.handle after the guards
SendCredAfter(step) ==
    CASE step = "lookup" -> "prepare_send"
      [] step = "prepare_send" -> "send"
      [] step = "send" -> "send_reply"
      [] step = "send_reply" -> "done"

\* connection ids the exchange record returned by a manager may carry
ReturnedConnIds(connection_id) == {connection_id, IdNames[2]}

SendCred_Lookup(p) ==
    /\ At(p, ISSUER_SEND_CREDENTIAL, "lookup")
    /\ LET message == ctx[p].message
           connection_record == retrieve_by_id(conns, message.connection_id)
           report == SendCredGuard(message, connection_record)
       IN  /\ loc' = [loc EXCEPT ![p].connection_record = connection_record]
           /\ IF report # <<>>
              THEN /\ out' = [out EXCEPT ![p] = Append(@, SendReply(report[1]))]
                   /\ pc' = [pc EXCEPT ![p] = "done"]
              ELSE /\ out' = out
                   /\ pc' = [pc EXCEPT ![p] = SendCredAfter("lookup")]
    /\ UNCHANGED <<conns, exch, ctx>>

\* SendCred_PrepareSend checking the connection again and giving up when it
\* is no longer there and ready
Mut_SendCred_PrepareSend(p) ==
    /\ At(p, ISSUER_SEND_CREDENTIAL, "prepare_send")
    /\ LET message == ctx[p].message
           again == retrieve_by_id(conns, message.connection_id)
           report == SendCredGuard(message, again)
       IN  IF report # <<>>
           THEN /\ out' = [out EXCEPT ![p] = Append(@, SendReply(report[1]))]
                /\ pc' = [pc EXCEPT ![p] = "done"]
                /\ UNCHANGED <<exch, loc>>
           ELSE LET cred_exchange_record ==
                      [role |-> ROLE_ISSUER, connection_id |-> message.connection_id,
                       credential_definition_id |-> None, schema_id |-> None]
                IN  /\ exch' = [exch EXCEPT !.cred = Append(@, cred_exchange_record)]
                    /\ loc' = [loc EXCEPT ![p].exchange_record = <<cred_exchange_record>>]
                    /\ out' = [out EXCEPT ![p] =
                                 Append(@, Call("prepare_send", message.connection_id))]
                    /\ pc' = [pc EXCEPT ![p] = SendCredAfter("prepare_send")]
    /\ UNCHANGED <<conns, ctx>>

SendCred_PrepareSend(p) ==
    /\ At(p, ISSUER_SEND_CREDENTIAL, "prepare_send")
    /\ LET connection_id == ctx[p].message.connection_id
       IN  \E rc \in ReturnedConnIds(connection_id) :
             LET cred_exchange_record ==
                   [role |-> ROLE_ISSUER, connection_id |-> rc,
                    credential_definition_id |-> None, schema_id |-> None]
             IN  /\ exch' = [exch EXCEPT !.cred = Append(@, cred_exchange_record)]
                 /\ loc' = [loc EXCEPT ![p].exchange_record = <<cred_exchange_record>>]
                 /\ out' = [out EXCEPT ![p] =
                              Append(@, Call("prepare_send", connection_id))]
    /\ pc' = [pc EXCEPT ![p] = SendCredAfter("prepare_send")]
    /\ UNCHANGED <<conns, ctx>>

SendCred_Send(p) ==
    /\ At(p, ISSUER_SEND_CREDENTIAL, "send")
    /\ LET cred_exchange_record == loc[p].exchange_record[1]
       IN  out' = [out EXCEPT ![p] =
                     Append(@, Send(CREDENTIAL_OFFER, cred_exchange_record.connection_id,
                                    cred_exchange_record))]
    /\ pc' = [pc EXCEPT ![p] = SendCredAfter("send")]
    /\ UNCHANGED <<conns, exch, ctx, loc>>

SendCred_SendReply(p) ==
    /\ At(p, ISSUER_SEND_CREDENTIAL, "send_reply")
    /\ LET cred_exchange ==
             assign_thread_from(
                 NewMessage(ISSUER_ISSUER_CRED_EXCHANGE, loc[p].exchange_record[1]),
                 ctx[p].message)
       IN  out' = [out EXCEPT ![p] = Append(@, SendReply(cred_exchange))]
    /\ pc' = [pc EXCEPT ![p] = SendCredAfter("send_reply")]
    /\ UNCHANGED <<conns, exch, ctx, loc>>

\* ----------------------------------------------------------- RequestPres
\* RequestPresGuard without the is_ready test
Mut_RequestPresGuard(message, connection_record) ==
    IF connection_record = <<>>
    THEN <<assign_thread_from(ProblemReport("Connection not found.", "none"), message)>>
    ELSE <<>>

RequestPresGuard(message, connection_record) ==
    IF connection_record = <<>>
    THEN <<assign_thread_from(ProblemReport("Connection not found.", "none"), message)>>
    ELSE IF ~connection_record[1].is_ready
    THEN <<assign_thread_from(ProblemReport("Connection invalid.", "none"), message)>>
    ELSE <<>>

\* dict.get("nonce")
GetNonce(d) == IF "nonce" \in DOMAIN d THEN d.nonce ELSE None
\* Python truth value of a str or None
Truthy(v) == v # None /\ v # ""

\* AssignNonce testing for the key instead of the value's truth
Mut_AssignNonce(indy_proof_request, uuid) ==
    IF "nonce" \notin DOMAIN indy_proof_request
    THEN [k \in DOMAIN indy_proof_request \cup {"nonce"} |->
             IF k = "nonce" THEN uuid ELSE indy_proof_request[k]]
    ELSE indy_proof_request

\* if not indy_proof_request.get("nonce"): indy_proof_request["nonce"] = uuid
AssignNonce(indy_proof_request, uuid) ==
    IF ~Truthy(GetNonce(indy_proof_request))
    THEN [k \in DOMAIN indy_proof_request \cup {"nonce"} |->
             IF k = "nonce" THEN uuid ELSE indy_proof_request[k]]
    ELSE indy_proof_request

\* RequestPresAfter returning after the peer send, without the reply
Mut_RequestPresAfter(step) ==
    CASE step = "lookup" -> "create_exchange"
      [] step = "create_exchange" -> "send"
      [] step = "send" -> "done"
      [] step = "send_reply" -> "done"

RequestPresAfter(step) ==
    CASE step = "lookup" -> "create_exchange"
      [] step = "create_exchange" -> "send"
      [] step = "send" -> "send_reply"
      [] step = "send_reply" -> "done"

\* the lookup, the guards and, synchronously after them, the nonce and the
\* PresentationRequest with its one attachment
\* (ctx keeps the proof request as received; the handler's dict, which Python
\* updates in place, is loc[p].payload)
RequestPres_Lookup(p) ==
    /\ At(p, ISSUER_REQUEST_PRESENTATION, "lookup")
    /\ LET message == ctx[p].message
           connection_record == retrieve_by_id(conns, message.connection_id)
           report == RequestPresGuard(message, connection_record)
       IN  IF report # <<>>
           THEN /\ loc' = [loc EXCEPT ![p].connection_record = connection_record]
                /\ out' = [out EXCEPT ![p] = Append(@, SendReply(report[1]))]
                /\ pc' = [pc EXCEPT ![p] = "done"]
           ELSE /\ \E uuid \in GenNonces :
                     loc' = [loc EXCEPT
                               ![p].connection_record = connection_record,
                               ![p].payload =
                                   <<AssignNonce(message.proof_request, uuid)>>]
                /\ out' = out
                /\ pc' = [pc EXCEPT ![p] = RequestPresAfter("lookup")]
    /\ UNCHANGED <<conns, exch, ctx>>

RequestPres_CreateExchange(p) ==
    /\ At(p, ISSUER_REQUEST_PRESENTATION, "create_exchange")
    /\ LET connection_id == ctx[p].message.connection_id
       IN  \E rc \in ReturnedConnIds(connection_id) :
             LET presentation_exchange_record ==
                   [role |-> ROLE_VERIFIER, connection_id |-> rc, verified |-> None]
             IN  /\ exch' = [exch EXCEPT !.pres = Append(@, presentation_exchange_record)]
                 /\ loc' = [loc EXCEPT
                              ![p].exchange_record = <<presentation_exchange_record>>]
                 /\ out' = [out EXCEPT ![p] =
                              Append(@, Call("create_exchange_for_request", connection_id))]
    /\ pc' = [pc EXCEPT ![p] = RequestPresAfter("create_exchange")]
    /\ UNCHANGED <<conns, ctx>>

RequestPres_Send(p) ==
    /\ At(p, ISSUER_REQUEST_PRESENTATION, "send")
    /\ out' = [out EXCEPT ![p] =
                 Append(@, Send(PRESENTATION_REQUEST, ctx[p].message.connection_id,
                                [request_presentations_attach |-> loc[p].payload]))]
    /\ pc' = [pc EXCEPT ![p] = RequestPresAfter("send")]
    /\ UNCHANGED <<conns, exch, ctx, loc>>

RequestPres_SendReply(p) ==
    /\ At(p, ISSUER_REQUEST_PRESENTATION, "send_reply")
    /\ LET pres_exchange ==
             assign_thread_from(
                 NewMessage(ISSUER_ISSUER_PRES_EXCHANGE, loc[p].exchange_record[1]),
                 ctx[p].message)
       IN  out' = [out EXCEPT ![p] = Append(@, SendReply(pres_exchange))]
    /\ pc' = [pc EXCEPT ![p] = RequestPresAfter("send_reply")]
    /\ UNCHANGED <<conns, exch, ctx, loc>>

\* ------------------------------------------------ CredGetList, PresGetList
\* CredPostFilter with the holder's role
Mut_CredPostFilter(message) ==
    FilterNotNone([role |-> ROLE_HOLDER,
                   connection_id |-> message.connection_id,
                   credential_definition_id |-> message.cred_def_id,
                   schema_id |-> message.schema_id])

CredPostFilter(message) ==
    FilterNotNone([role |-> ROLE_ISSUER,
                   connection_id |-> message.connection_id,
                   credential_definition_id |-> message.cred_def_id,
                   schema_id |-> message.schema_id])

PresPostFilter(message) ==
    FilterNotNone([role |-> ROLE_VERIFIER,
                   connection_id |-> message.connection_id,
                   verified |-> message.verified])

CredGetList_Query(p) ==
    /\ At(p, ISSUER_CREDENTIALS_GET_LIST, "query")
    /\ LET post_filter == CredPostFilter(ctx[p].message)
       IN  /\ loc' = [loc EXCEPT ![p].records = Query(exch.cred, post_filter)]
           /\ out' = [out EXCEPT ![p] =
                        Append(@, Call("V10CredentialExchange.query", post_filter))]
    /\ pc' = [pc EXCEPT ![p] = "send_reply"]
    /\ UNCHANGED <<conns, exch, ctx>>

CredGetList_SendReply(p) ==
    /\ At(p, ISSUER_CREDENTIALS_GET_LIST, "send_reply")
    /\ LET cred_list == NewMessage(ISSUER_CREDENTIALS_LIST, loc[p].records)
       IN  out' = [out EXCEPT ![p] = Append(@, SendReply(cred_list))]
    /\ pc' = [pc EXCEPT ![p] = "done"]
    /\ UNCHANGED <<conns, exch, ctx, loc>>

PresGetList_Query(p) ==
    /\ At(p, ISSUER_PRESENTATIONS_GET_LIST, "query")
    /\ LET post_filter == PresPostFilter(ctx[p].message)
       IN  /\ loc' = [loc EXCEPT ![p].records = Query(exch.pres, post_filter)]
           /\ out' = [out EXCEPT ![p] =
                        Append(@, Call("V10PresentationExchange.query", post_filter))]
    /\ pc' = [pc EXCEPT ![p] = "send_reply"]
    /\ UNCHANGED <<conns, exch, ctx>>

PresGetList_SendReply(p) ==
    /\ At(p, ISSUER_PRESENTATIONS_GET_LIST, "send_reply")
    /\ LET cred_list == NewMessage(ISSUER_PRESENTATIONS_LIST, loc[p].records)
       IN  out' = [out EXCEPT ![p] = Append(@, SendReply(cred_list))]
    /\ pc' = [pc EXCEPT ![p] = "done"]
    /\ UNCHANGED <<conns, exch, ctx, loc>>

\* ------------------------------------------------------ collaborator faults
\* the collaborator call each step of a handler awaits
CalledAt(type, step) ==
    CASE step = "create_invitation" -> "create_invitation"
      [] step = "query" /\ type = INVITATIONS_INVITATION_GET_LIST -> "ConnectionRecord.query"
      [] step = "query" /\ type = ISSUER_CREDENTIALS_GET_LIST -> "V10CredentialExchange.query"
      [] step = "query" /\ type = ISSUER_PRESENTATIONS_GET_LIST ->
           "V10PresentationExchange.query"
      [] step = "retrieve_invitation" -> "retrieve_invitation"
      [] step = "lookup" -> "retrieve_by_id"
      [] step = "prepare_send" -> "prepare_send"
      [] step = "create_exchange" -> "create_exchange_for_request"
      [] step = "send" -> "send"
      [] step = "send_reply" -> "send_reply"

\* Raise answering the caller with a Problem Report instead of propagating
Mut_Raise(p) ==
    /\ pc[p] \notin Terminal
    /\ out' = [out EXCEPT ![p] =
                 Append(Append(@, [ev |-> "raise",
                                   what |-> CalledAt(ctx[p].message.type, pc[p]),
                                   to |-> None, thid |-> NoThread, body |-> None]),
                        SendReply(assign_thread_from(
                                      ProblemReport("Internal error.", "none"),
                                      ctx[p].message)))]
    /\ pc' = [pc EXCEPT ![p] = "done"]
    /\ UNCHANGED <<conns, exch, ctx, loc>>

\* the awaited call raises an error no except clause of the handler names
\* (anything but StorageNotFoundError from retrieve_by_id or
\* retrieve_invitation): handle() is left through the exception
Raise(p) ==
    /\ pc[p] \notin Terminal
    /\ out' = [out EXCEPT ![p] =
                 Append(@, [ev |-> "raise", what |-> CalledAt(ctx[p].message.type, pc[p]),
                            to |-> None, thid |-> NoThread, body |-> None])]
    /\ pc' = [pc EXCEPT ![p] = "raised"]
    /\ UNCHANGED <<conns, exch, ctx, loc>>

\* ------------------------------------------------------------ specification
Next ==
    \E p \in DOMAIN pc :
        \/ Receive(p)
        \/ CreateInvitation_Create(p)
        \/ CreateInvitation_SendReply(p)
        \/ InvitationGetList_Query(p)
        \/ InvitationGetList_RetrieveInvitation(p)
        \/ InvitationGetList_SendReply(p)
        \/ SendCred_Lookup(p)
        \/ SendCred_PrepareSend(p)
        \/ SendCred_Send(p)
        \/ SendCred_SendReply(p)
        \/ RequestPres_Lookup(p)
        \/ RequestPres_CreateExchange(p)
        \/ RequestPres_Send(p)
        \/ RequestPres_SendReply(p)
        \/ CredGetList_Query(p)
        \/ CredGetList_SendReply(p)
        \/ PresGetList_Query(p)
        \/ PresGetList_SendReply(p)
        \/ Raise(p)

Spec == Init /\ [][Next]_vars


\* ------------------------------------------------------- shared vocabulary
GuardedHandlers == {ISSUER_SEND_CREDENTIAL, ISSUER_REQUEST_PRESENTATION}
\* the invocation in slot p has its connection lookup behind it
PastLookup(p) ==
    /\ ctx[p].message.type \in GuardedHandlers
    /\ pc[p] \notin {"idle", "dropped", "lookup"}
    /\ ~(out[p] # <<>> /\ out[p][1].ev = "raise")        \* the lookup returned
Replies(p) == SelectSeq(out[p], LAMBDA e : e.ev = "reply")
PeerSends(p) == SelectSeq(out[p], LAMBDA e : e.ev = "send")
Calls(p) == SelectSeq(out[p], LAMBDA e : e.ev = "call")
ManagerCalls(p) ==
    SelectSeq(out[p],
              LAMBDA e : e.ev = "call"
                           /\ e.what \in {"prepare_send", "create_exchange_for_request"})
\* out[p] is one Problem Report reply with this text, threaded to the request
OnlyProblemReport(p, explain_ltxt) ==
    /\ Len(out[p]) = 1
    /\ out[p][1].ev = "reply"
    /\ out[p][1].what = PROBLEM_REPORT
    /\ out[p][1].body.explain_ltxt = explain_ltxt
    /\ out[p][1].body.who_retries = "none"
    /\ out[p][1].thid = ctx[p].message.id

\* C1: SendCred / RequestPres whose connection id resolves to no record send
\* exactly one message, the Problem Report "Connection not found." with
\* who_retries "none" and the request's thread id; the manager is not called,
\* nothing goes to a peer, and the handler has stopped.
Thm_C1_NotFoundReport ==
    \A p \in DOMAIN pc :
        (PastLookup(p) /\ loc[p].connection_record = <<>>) =>
            /\ pc[p] = "done"
            /\ OnlyProblemReport(p, "Connection not found.")
            /\ ManagerCalls(p) = <<>>
            /\ PeerSends(p) = <<>>
            /\ retrieve_by_id(conns, ctx[p].message.connection_id) = <<>>

Wit_C1_NotFoundReport ==
    \E p \in DOMAIN pc :
        /\ ctx[p].message.type = ISSUER_REQUEST_PRESENTATION
        /\ ctx[p].message.connection_id = UnknownId
        /\ pc[p] = "done"
        /\ Len(out[p]) = 1

\* C2: SendCred / RequestPres whose connection record is found but not ready
\* send exactly one message, the Problem Report "Connection invalid." with
\* who_retries "none" and the request's thread id; the manager is not called,
\* nothing goes to a peer, and the handler has stopped.
Thm_C2_NotReadyReport ==
    \A p \in DOMAIN pc :
        (/\ PastLookup(p)
         /\ loc[p].connection_record # <<>>
         /\ ~loc[p].connection_record[1].is_ready) =>
            /\ pc[p] = "done"
            /\ OnlyProblemReport(p, "Connection invalid.")
            /\ ManagerCalls(p) = <<>>
            /\ PeerSends(p) = <<>>

Wit_C2_NotReadyReport ==
    \E p \in DOMAIN pc :
        /\ ctx[p].message.type = ISSUER_SEND_CREDENTIAL
        /\ pc[p] = "done"
        /\ loc[p].connection_record # <<>>
        /\ ~loc[p].connection_record[1].is_ready
        /\ Len(out[p]) = 1

\* C3: a request whose sender is not an admin never enters the handler body:
\* every step that leaves such a request in a slot drops it, with no
\* collaborator call, no message to a peer, no reply, and both record stores
\* as they were.
Thm_C3_UnauthorizedDropped ==
    [][\A p \in DOMAIN pc :
          (/\ pc'[p] # "idle"
           /\ ~ctx'[p].admin
           /\ <<pc[p], ctx[p], loc[p], out[p]>> # <<pc'[p], ctx'[p], loc'[p], out'[p]>>) =>
              /\ pc'[p] = "dropped"
              /\ out'[p] = <<>>
              /\ loc'[p] = NoLocals
              /\ conns' = conns
              /\ exch' = exch]_vars

Wit_C3_UnauthorizedDropped ==
    \E p \in DOMAIN pc :
        /\ ~ctx[p].admin
        /\ ctx[p].message.type = ISSUER_CREDENTIALS_GET_LIST
        /\ pc[p] = "dropped"
        /\ out[p] = <<>>
        /\ Len(conns) > InitConns

\* C4: every reply sent to the admin caller carries the id of the request
\* that caused it as its thread id.
Claim_C4_EveryReplyThreaded ==
    \A p \in DOMAIN pc :
        \A i \in 1 .. Len(out[p]) :
            out[p][i].ev = "reply" => out[p][i].thid = ctx[p].message.id


\* the payload attached to the presentation request slot p sent to the peer
Dispatched(p) == PeerSends(p)[1].body.request_presentations_attach

\* C5 as stated: a proof request without a nonce key is dispatched with a
\* generated non-empty nonce, and a proof request that has a nonce key is
\* dispatched unchanged.
Claim_C5_NonceKeptIfPresent ==
    \A p \in DOMAIN pc :
        (ctx[p].message.type = ISSUER_REQUEST_PRESENTATION /\ PeerSends(p) # <<>>) =>
            LET given == ctx[p].message.proof_request
                sent == Dispatched(p)[1]
            IN  /\ "nonce" \notin DOMAIN given =>
                      (sent.nonce \in GenNonces /\ sent.nonce # "")
                /\ "nonce" \in DOMAIN given => sent = given

\* C5 (amended): RequestPres on a found and ready connection dispatches one
\* attachment with exactly one, non-empty nonce: generated by the handler when
\* the request's nonce is absent or empty, the request's own nonce, with the
\* payload unchanged, when that nonce is non-empty; assigning a nonce again to
\* the dispatched payload changes nothing.
Thm_C5_NonceAssignment ==
    \A p \in DOMAIN pc :
        (ctx[p].message.type = ISSUER_REQUEST_PRESENTATION /\ PeerSends(p) # <<>>) =>
            LET given == ctx[p].message.proof_request
                sent == Dispatched(p)[1]
            IN  /\ Len(PeerSends(p)) = 1
                /\ Len(Dispatched(p)) = 1
                /\ "nonce" \in DOMAIN sent
                /\ sent.nonce # "" /\ sent.nonce # None
                /\ ("nonce" \notin DOMAIN given \/ given.nonce = "") =>
                      /\ sent.nonce \in GenNonces
                      /\ \A k \in DOMAIN given \ {"nonce"} : sent[k] = given[k]
                      /\ DOMAIN sent = DOMAIN given \cup {"nonce"}
                /\ ("nonce" \in DOMAIN given /\ given.nonce # "") => sent = given
                /\ \A uuid \in GenNonces : AssignNonce(sent, uuid) = sent

Wit_C5_NonceAssignment ==
    \E p \in DOMAIN pc :
        /\ ctx[p].message.type = ISSUER_REQUEST_PRESENTATION
        /\ pc[p] = "done"
        /\ PeerSends(p) # <<>>
        /\ "nonce" \in DOMAIN ctx[p].message.proof_request
        /\ ctx[p].message.proof_request.nonce = ""
        /\ Dispatched(p)[1].nonce \in GenNonces

\* C6: the Invitation reply's auto_accept and multi_use are the modes of the
\* connection record create_invitation stored (accept = auto, invitation_mode
\* = multi), whatever booleans the request carried.
Thm_C6_ReplyReadsRecord ==
    \A p \in DOMAIN pc :
        (ctx[p].message.type = INVITATIONS_CREATE_INVITATION /\ pc[p] = "done") =>
            /\ Len(out[p]) = 2
            /\ out[p][2].ev = "reply"
            /\ out[p][2].what = INVITATIONS_INVITATION
            /\ LET reply == out[p][2].body
                   stored == retrieve_by_id(conns, reply.id)
               IN  /\ stored # <<>>
                   /\ reply.auto_accept = (stored[1].accept = ACCEPT_AUTO)
                   /\ reply.multi_use = (stored[1].invitation_mode = INVITATION_MODE_MULTI)

Wit_C6_ReplyReadsRecord ==
    \E p \in DOMAIN pc :
        /\ ctx[p].message.type = INVITATIONS_CREATE_INVITATION
        /\ pc[p] = "done"
        /\ ctx[p].message.auto_accept /\ ~ctx[p].message.multi_use
        /\ ~out[p][2].body.auto_accept /\ out[p][2].body.multi_use

\* connections a ConnectionRecord query for open invitations returns, and
\* those among them whose invitation can be retrieved
InvitationState == SelectSeq(conns, LAMBDA r : r.state = "invitation")
Retrievable == SelectSeq(InvitationState, LAMBDA r : r.has_invitation)

\* C7: InvitationGetList queries with the post filter state = "invitation"
\* and replies, once, with one entry per returned connection whose invitation
\* can be retrieved, in query order: N returned, M failing lookups, N - M
\* entries, none for a failed lookup, and never an error reply.
Thm_C7_FailedLookupsOmitted ==
    \A p \in DOMAIN pc :
        (ctx[p].message.type = INVITATIONS_INVITATION_GET_LIST /\ pc[p] = "done") =>
            LET N == Len(InvitationState)
                M == Len(SelectSeq(InvitationState, LAMBDA r : ~r.has_invitation))
                last == out[p][Len(out[p])]
            IN  /\ out[p][1].ev = "call"
                /\ out[p][1].what = "ConnectionRecord.query"
                /\ DOMAIN out[p][1].body = {"state"}
                /\ out[p][1].body.state = "invitation"
                /\ Len(out[p]) = N + 2
                /\ Len(Replies(p)) = 1
                /\ last.ev = "reply"
                /\ last.what = INVITATIONS_INVITATION_LIST
                /\ Len(last.body) = N - M
                /\ \A i \in 1 .. Len(last.body) :
                      /\ last.body[i].id = Retrievable[i].connection_id
                      /\ last.body[i].auto_accept = (Retrievable[i].accept = ACCEPT_AUTO)
                      /\ last.body[i].multi_use =
                            (Retrievable[i].invitation_mode = INVITATION_MODE_MULTI)

Wit_C7_FailedLookupsOmitted ==
    \E p \in DOMAIN pc :
        /\ ctx[p].message.type = INVITATIONS_INVITATION_GET_LIST
        /\ pc[p] = "done"
        /\ Len(InvitationState) = 3
        /\ Len(Retrievable) = 2
        /\ ~InvitationState[2].has_invitation
        /\ Len(out[p][Len(out[p])].body) = 2


\* the post filter a list handler in slot p passed to the exchange-record query
IsExchangeList(p) ==
    /\ ctx[p].message.type \in {ISSUER_CREDENTIALS_GET_LIST, ISSUER_PRESENTATIONS_GET_LIST}
    /\ pc[p] \in {"send_reply", "done"}
PassedFilter(p) == out[p][1].body
\* the optional request fields of each list request and their filter keys
FilterKeys(type) ==
    IF type = ISSUER_CREDENTIALS_GET_LIST
    THEN {<<"connection_id", "connection_id">>,
          <<"cred_def_id", "credential_definition_id">>,
          <<"schema_id", "schema_id">>}
    ELSE {<<"connection_id", "connection_id">>, <<"verified", "verified">>}

\* C8: the filter CredGetList / PresGetList pass to the query has the key of
\* an optional request field exactly when the request carries that field, with
\* the request's value: absent fields are left out, falsy values are kept.
Thm_C8_FilterKeyIffPresent ==
    \A p \in DOMAIN pc :
        IsExchangeList(p) =>
            /\ out[p][1].ev = "call"
            /\ \A fk \in FilterKeys(ctx[p].message.type) :
                  /\ fk[2] \in DOMAIN PassedFilter(p) <=> ctx[p].message[fk[1]] # None
                  /\ fk[2] \in DOMAIN PassedFilter(p) =>
                        PassedFilter(p)[fk[2]] = ctx[p].message[fk[1]]
            /\ \A k \in DOMAIN PassedFilter(p) : PassedFilter(p)[k] # None
            /\ DOMAIN PassedFilter(p) \subseteq
                  {"role"} \cup {fk[2] : fk \in FilterKeys(ctx[p].message.type)}

Wit_C8_FilterKeyIffPresent ==
    \E p \in DOMAIN pc :
        /\ IsExchangeList(p)
        /\ ctx[p].message.type = ISSUER_CREDENTIALS_GET_LIST
        /\ ctx[p].message.connection_id = ""
        /\ ctx[p].message.cred_def_id = None
        /\ DOMAIN PassedFilter(p) = {"role", "connection_id", "schema_id"}
        /\ PassedFilter(p).connection_id = ""

\* C9: every query of CredGetList filters on role = issuer and every query of
\* PresGetList on role = verifier, whatever the request carries.
Thm_C9_RoleForced ==
    \A p \in DOMAIN pc :
        IsExchangeList(p) =>
            /\ "role" \in DOMAIN PassedFilter(p)
            /\ ctx[p].message.type = ISSUER_CREDENTIALS_GET_LIST =>
                  /\ out[p][1].what = "V10CredentialExchange.query"
                  /\ PassedFilter(p).role = ROLE_ISSUER
                  /\ \A i \in 1 .. Len(loc[p].records) :
                        loc[p].records[i].role = ROLE_ISSUER
            /\ ctx[p].message.type = ISSUER_PRESENTATIONS_GET_LIST =>
                  /\ out[p][1].what = "V10PresentationExchange.query"
                  /\ PassedFilter(p).role = ROLE_VERIFIER
                  /\ \A i \in 1 .. Len(loc[p].records) :
                        loc[p].records[i].role = ROLE_VERIFIER

Wit_C9_RoleForced ==
    \E p \in DOMAIN pc :
        /\ IsExchangeList(p)
        /\ ctx[p].message.type = ISSUER_CREDENTIALS_GET_LIST
        /\ pc[p] = "done"
        /\ ctx[p].message.connection_id = IdNames[1]
        /\ ctx[p].message.cred_def_id # None
        /\ ctx[p].message.schema_id # None
        /\ Len(loc[p].records) = 1
        /\ Len(exch.cred) > 1

\* the handler in slot p found its connection and found it ready
SuccessPath(p) ==
    /\ PastLookup(p)
    /\ pc[p] # "raised"
    /\ loc[p].connection_record # <<>>
    /\ loc[p].connection_record[1].is_ready
\* the events of a finished success path, in order
SuccessEvents(type) ==
    IF type = ISSUER_SEND_CREDENTIAL
    THEN <<[ev |-> "call", what |-> "prepare_send"],
           [ev |-> "send", what |-> CREDENTIAL_OFFER],
           [ev |-> "reply", what |-> ISSUER_ISSUER_CRED_EXCHANGE]>>
    ELSE <<[ev |-> "call", what |-> "create_exchange_for_request"],
           [ev |-> "send", what |-> PRESENTATION_REQUEST],
           [ev |-> "reply", what |-> ISSUER_ISSUER_PRES_EXCHANGE]>>
NewestRecord(type) ==
    IF type = ISSUER_SEND_CREDENTIAL
    THEN exch.cred[Len(exch.cred)] ELSE exch.pres[Len(exch.pres)]

\* C10: on the success path of SendCred / RequestPres the manager creates the
\* exchange record, then the offer / presentation request goes to the peer,
\* then the reply with the new exchange record goes to the caller: at every
\* moment what has happened is a prefix of these three events, all three have
\* happened once the handler is done, and no Problem Report is sent.
Thm_C10_CreateSendReply ==
    \A p \in DOMAIN pc :
        SuccessPath(p) =>
            LET expected == SuccessEvents(ctx[p].message.type)
            IN  /\ Len(out[p]) <= 3
                /\ \A i \in 1 .. Len(out[p]) :
                      /\ out[p][i].ev = expected[i].ev
                      /\ out[p][i].what = expected[i].what
                /\ pc[p] = "done" =>
                      /\ Len(out[p]) = 3
                      /\ out[p][3].body = NewestRecord(ctx[p].message.type)
                      /\ out[p][3].thid = ctx[p].message.id

Wit_C10_CreateSendReply ==
    \E p \in DOMAIN pc :
        /\ SuccessPath(p)
        /\ ctx[p].message.type = ISSUER_SEND_CREDENTIAL
        /\ pc[p] = "done"
        /\ Len(out[p]) = 3
        /\ out[p][2].ev = "send"
        /\ out[p][3].ev = "reply"


\* ------------------------------------------------ concurrent list requests
\* Two handler slots serve list requests side by side, each slot request
\* after request, over a store that holds what CreateInvitation may have added.
ListSlots == {1, 2}
ListHandlers ==
    {INVITATIONS_INVITATION_GET_LIST, ISSUER_CREDENTIALS_GET_LIST,
     ISSUER_PRESENTATIONS_GET_LIST}
ListRequests ==
    InvitationGetListRequests
        \cup {m \in CredGetListRequests :
                 m.cred_def_id = None /\ m.schema_id = None /\ m.connection_id # ""}
        \cup {m \in PresGetListRequests : m.connection_id = None}
CreatedConnection ==
    [connection_id |-> IdNames[InitConns + 1], state |-> "invitation",
     is_ready |-> FALSE, accept |-> ACCEPT_NONE,
     invitation_mode |-> INVITATION_MODE_MULTI, has_invitation |-> TRUE]

InitList ==
    /\ conns \in {InitialConnections, Append(InitialConnections, CreatedConnection)}
    /\ exch = [cred |-> InitialCredExchanges, pres |-> InitialPresExchanges]
    /\ pc = [p \in ListSlots |-> "idle"]
    /\ ctx = [p \in ListSlots |-> [message |-> NoMessage, admin |-> FALSE]]
    /\ loc = [p \in ListSlots |-> NoLocals]
    /\ out = [p \in ListSlots |-> <<>>]

ReceiveList(p) == ReceiveFrom(p, ListRequests)

NextList ==
    \E p \in DOMAIN pc :
        \/ ReceiveList(p)
        \/ InvitationGetList_Query(p)
        \/ InvitationGetList_RetrieveInvitation(p)
        \/ InvitationGetList_SendReply(p)
        \/ CredGetList_Query(p)
        \/ CredGetList_SendReply(p)
        \/ PresGetList_Query(p)
        \/ PresGetList_SendReply(p)

SpecList == InitList /\ [][NextList]_vars

\* the results a finished list request in slot p replied with
ListResults(p) == out[p][Len(out[p])].body
\* what the request of slot p asks for, its id aside
Fields(p) == [ctx[p].message EXCEPT !.id = None]
\* the results a list request with this message has over the stores as they are
ExpectedResults(message) ==
    CASE message.type = INVITATIONS_INVITATION_GET_LIST ->
           [i \in 1 .. Len(Retrievable) |->
               [id |-> Retrievable[i].connection_id,
                auto_accept |-> (Retrievable[i].accept = ACCEPT_AUTO),
                multi_use |-> (Retrievable[i].invitation_mode = INVITATION_MODE_MULTI)]]
      [] message.type = ISSUER_CREDENTIALS_GET_LIST ->
           SelectSeq(exch.cred,
                     LAMBDA r : /\ r.role = ROLE_ISSUER
                                /\ message.connection_id # None
                                      => r.connection_id = message.connection_id
                                /\ message.cred_def_id # None
                                      => r.credential_definition_id = message.cred_def_id
                                /\ message.schema_id # None
                                      => r.schema_id = message.schema_id)
      [] message.type = ISSUER_PRESENTATIONS_GET_LIST ->
           SelectSeq(exch.pres,
                     LAMBDA r : /\ r.role = ROLE_VERIFIER
                                /\ message.connection_id # None
                                      => r.connection_id = message.connection_id
                                /\ message.verified # None
                                      => r.verified = message.verified)

\* C11: the list handlers are read-only and deterministic under any
\* interleaving of concurrent list requests: no step of a list handler changes
\* a record store, nothing goes to a peer, a finished list request replied
\* with the results its fields select from the store, and so two finished
\* requests with the same fields replied with the same results.
Thm_C11_ListsReadOnly ==
    [][/\ conns' = conns
       /\ exch' = exch
       /\ \A p \in DOMAIN pc :
             (ctx'[p].message.type \in ListHandlers /\ pc'[p] = "done") =>
                /\ PeerSends(p)' = <<>>
                /\ Len(Replies(p)') = 1
                /\ ListResults(p)' = ExpectedResults(ctx'[p].message)
                /\ \A q \in DOMAIN pc :
                      (pc'[q] = "done" /\ Fields(q)' = Fields(p)') =>
                          ListResults(q)' = ListResults(p)']_vars

Wit_C11_ListsReadOnly ==
    /\ Len(conns) > InitConns
    /\ pc[1] = "done" /\ pc[2] = "done"
    /\ ctx[1].message.type = INVITATIONS_INVITATION_GET_LIST
    /\ ctx[2].message.type = INVITATIONS_INVITATION_GET_LIST
    /\ ctx[1].message.id # ctx[2].message.id
    /\ Len(ListResults(1)) = 2
    /\ ListResults(1) = ListResults(2)


\* ------------------------------------------------------ message catalogues
\* MESSAGE_TYPES of invitations.py: message type -> message class
InvitationsMessageTypes ==
    [t \in {INVITATIONS_CREATE_INVITATION, INVITATIONS_INVITATION_GET_LIST,
            INVITATIONS_INVITATION} |->
        CASE t = INVITATIONS_CREATE_INVITATION ->
               "acapy_plugin_toolbox.invitations.CreateInvitation"
          [] t = INVITATIONS_INVITATION_GET_LIST ->
               "acapy_plugin_toolbox.invitations.InvitationGetList"
          [] t = INVITATIONS_INVITATION ->
               "acapy_plugin_toolbox.invitations.Invitation"]

\* MESSAGE_TYPES of issuer.py
IssuerMessageTypes ==
    [t \in {ISSUER_SEND_CREDENTIAL, ISSUER_REQUEST_PRESENTATION,
            ISSUER_CREDENTIALS_GET_LIST, ISSUER_CREDENTIALS_LIST,
            ISSUER_PRESENTATIONS_GET_LIST, ISSUER_PRESENTATIONS_LIST} |->
        CASE t = ISSUER_SEND_CREDENTIAL -> "acapy_plugin_toolbox.issuer.SendCred"
          [] t = ISSUER_REQUEST_PRESENTATION -> "acapy_plugin_toolbox.issuer.RequestPres"
          [] t = ISSUER_CREDENTIALS_GET_LIST -> "acapy_plugin_toolbox.issuer.CredGetList"
          [] t = ISSUER_CREDENTIALS_LIST -> "acapy_plugin_toolbox.issuer.CredList"
          [] t = ISSUER_PRESENTATIONS_GET_LIST -> "acapy_plugin_toolbox.issuer.PresGetList"
          [] t = ISSUER_PRESENTATIONS_LIST -> "acapy_plugin_toolbox.issuer.PresList"]

\* the message classes invitations.py declares with generate_model_schema:
\* msg_type -> module path of the class
InvitationsDeclared ==
    [t \in {INVITATIONS_INVITATION_GET_LIST, INVITATIONS_CREATE_INVITATION,
            INVITATIONS_INVITATION, INVITATIONS_INVITATION_LIST} |->
        CASE t = INVITATIONS_INVITATION_GET_LIST ->
               "acapy_plugin_toolbox.invitations.InvitationGetList"
          [] t = INVITATIONS_CREATE_INVITATION ->
               "acapy_plugin_toolbox.invitations.CreateInvitation"
          [] t = INVITATIONS_INVITATION ->
               "acapy_plugin_toolbox.invitations.Invitation"
          [] t = INVITATIONS_INVITATION_LIST ->
               "acapy_plugin_toolbox.invitations.InvitationList"]

\* the message classes issuer.py declares with generate_model_schema
IssuerDeclared ==
    [t \in {ISSUER_SEND_CREDENTIAL, ISSUER_ISSUER_CRED_EXCHANGE,
            ISSUER_REQUEST_PRESENTATION, ISSUER_ISSUER_PRES_EXCHANGE,
            ISSUER_CREDENTIALS_GET_LIST, ISSUER_CREDENTIALS_LIST,
            ISSUER_PRESENTATIONS_GET_LIST, ISSUER_PRESENTATIONS_LIST} |->
        CASE t = ISSUER_SEND_CREDENTIAL -> "acapy_plugin_toolbox.issuer.SendCred"
          [] t = ISSUER_ISSUER_CRED_EXCHANGE ->
               "acapy_plugin_toolbox.issuer.IssuerCredExchange"
          [] t = ISSUER_REQUEST_PRESENTATION -> "acapy_plugin_toolbox.issuer.RequestPres"
          [] t = ISSUER_ISSUER_PRES_EXCHANGE ->
               "acapy_plugin_toolbox.issuer.IssuerPresExchange"
          [] t = ISSUER_CREDENTIALS_GET_LIST -> "acapy_plugin_toolbox.issuer.CredGetList"
          [] t = ISSUER_CREDENTIALS_LIST -> "acapy_plugin_toolbox.issuer.CredList"
          [] t = ISSUER_PRESENTATIONS_GET_LIST -> "acapy_plugin_toolbox.issuer.PresGetList"
          [] t = ISSUER_PRESENTATIONS_LIST -> "acapy_plugin_toolbox.issuer.PresList"]

\* catalogue has one entry for every declared type, naming its class, and no
\* class twice
Exhaustive(catalogue, declared) ==
    /\ DOMAIN catalogue = DOMAIN declared
    /\ \A t \in DOMAIN declared : catalogue[t] = declared[t]
    /\ \A t, u \in DOMAIN catalogue : catalogue[t] = catalogue[u] => t = u

\* C12: every message type the two protocols define has exactly one entry in
\* its protocol's MESSAGE_TYPES, mapping it to the class declared with that
\* type, and no two types map to the same class.
\* In particular the type of every request a slot holds and of every reply it
\* sent, Problem Reports aside, has its entry.
Claim_C12_CataloguesExhaustive ==
    /\ \A p \in DOMAIN pc :
          /\ pc[p] # "idle" =>
                ctx[p].message.type \in
                    DOMAIN InvitationsMessageTypes \cup DOMAIN IssuerMessageTypes
          /\ \A i \in 1 .. Len(Replies(p)) :
                Replies(p)[i].what \in
                    DOMAIN InvitationsDeclared \cup DOMAIN IssuerDeclared
                        \cup {PROBLEM_REPORT}
    /\ Exhaustive(InvitationsMessageTypes, InvitationsDeclared)
    /\ Exhaustive(IssuerMessageTypes, IssuerDeclared)


\* the raise events among what slot p did
Raises(p) == SelectSeq(out[p], LAMBDA e : e.ev = "raise")

\* C13: an error a collaborator call raises, other than the not-found the
\* handler catches, is not recovered: the raise is the last thing the
\* invocation does, the invocation ends raised, and it has sent no Problem
\* Report and no reply; when the call that failed is the delegation of
\* SendCred or RequestPres, nothing went to the peer either.
Thm_C13_FaultPropagates ==
    \A p \in DOMAIN pc :
        Raises(p) # <<>> =>
            /\ pc[p] = "raised"
            /\ Len(Raises(p)) = 1
            /\ out[p][Len(out[p])].ev = "raise"
            /\ Replies(p) = <<>>
            /\ out[p][Len(out[p])].what \in {"prepare_send", "create_exchange_for_request"}
                  => PeerSends(p) = <<>>
            /\ out[p][Len(out[p])].what = "send" => Len(ManagerCalls(p)) = 1

Wit_C13_FaultPropagates ==
    \E p \in DOMAIN pc :
        /\ pc[p] = "raised"
        /\ ctx[p].message.type = ISSUER_SEND_CREDENTIAL
        /\ Len(out[p]) = 1
        /\ out[p][1].what = "prepare_send"
        /\ loc[p].connection_record # <<>>


\* ------------------------------------------- a connection changing under way
\* Another actor (the peer, the connection protocol, an operator) makes a
\* ready connection unusable, or deletes a connection record, at any moment.
ConnectionChange ==
    \E i \in 1 .. Len(conns) :
        \/ /\ conns[i].is_ready
           /\ conns' = [conns EXCEPT ![i].is_ready = FALSE, ![i].state = "inactive"]
           /\ UNCHANGED <<exch, pc, ctx, loc, out>>
        \/ /\ conns' = SelectSeq(conns, LAMBDA r : r.connection_id # conns[i].connection_id)
           /\ UNCHANGED <<exch, pc, ctx, loc, out>>

ReceiveGuarded(p) == ReceiveFrom(p, SendCredRequests \cup RequestPresRequests)

NextRace ==
    \/ ConnectionChange
    \/ \E p \in DOMAIN pc :
          \/ ReceiveGuarded(p)
          \/ SendCred_Lookup(p)
          \/ SendCred_PrepareSend(p)
          \/ SendCred_Send(p)
          \/ SendCred_SendReply(p)
          \/ RequestPres_Lookup(p)
          \/ RequestPres_CreateExchange(p)
          \/ RequestPres_Send(p)
          \/ RequestPres_SendReply(p)

SpecRace == Init /\ [][NextRace]_vars

\* how many events a success path has behind it at each step
EventsBefore(step) ==
    CASE step \in {"prepare_send", "create_exchange"} -> 0
      [] step = "send" -> 1
      [] step = "send_reply" -> 2
      [] step = "done" -> 3
\* the connection the request of slot p names is, as the store is now, gone or
\* not ready
NowUnusable(p) ==
    LET now == retrieve_by_id(conns, ctx[p].message.connection_id)
    IN  now = <<>> \/ ~now[1].is_ready

\* C14: SendCred / RequestPres look the connection up and test is_ready once,
\* before delegating, and never again: whatever happens to the connection
\* afterwards, an invocation that found it ready delegates once, sends the
\* peer message and the success reply, without retry and without Problem
\* Report; and a peer message is sent only by an invocation that found the
\* connection ready at its check.
Thm_C14_CheckedOnce ==
    /\ [](\A p \in DOMAIN pc :
            /\ SuccessPath(p) =>
                 LET expected == SuccessEvents(ctx[p].message.type)
                 IN  /\ Len(out[p]) = EventsBefore(pc[p])
                     /\ \A i \in 1 .. Len(out[p]) :
                           /\ out[p][i].ev = expected[i].ev
                           /\ out[p][i].what = expected[i].what
            /\ (ctx[p].message.type \in GuardedHandlers /\ PeerSends(p) # <<>>) =>
                 /\ loc[p].connection_record # <<>>
                 /\ loc[p].connection_record[1].is_ready)
    /\ [][\A p \in DOMAIN pc :
            (SuccessPath(p) /\ ctx'[p] = ctx[p] /\ out'[p] = out[p]) =>
                /\ pc'[p] = pc[p]
                /\ loc'[p].connection_record = loc[p].connection_record]_vars
    /\ [][\A p \in DOMAIN pc :
            (SuccessPath(p) /\ out'[p] # out[p] /\ out'[p] # <<>>) =>
                loc'[p].connection_record = loc[p].connection_record]_vars

Wit_C14_CheckedOnce ==
    \E p \in DOMAIN pc :
        /\ SuccessPath(p)
        /\ ctx[p].message.type = ISSUER_SEND_CREDENTIAL
        /\ pc[p] = "send"
        /\ Len(out[p]) = 1
        /\ out[p][1].what = "prepare_send"
        /\ NowUnusable(p)


\* C15: the offer of SendCred and the presentation request of RequestPres go
\* to the connection id the request names, the one looked up and found ready,
\* whatever connection id the exchange record the manager returned carries.
Claim_C15_SentToRequestedConnection ==
    \A p \in DOMAIN pc :
        ctx[p].message.type \in GuardedHandlers =>
            \A i \in 1 .. Len(PeerSends(p)) :
                /\ PeerSends(p)[i].to = ctx[p].message.connection_id
                /\ loc[p].connection_record # <<>>
                /\ PeerSends(p)[i].to = loc[p].connection_record[1].connection_id


\* --------------------------------------------- concurrent invocations, fair
\* Two invocations of any handlers run side by side, one per slot; the event
\* loop resumes every invocation whose awaited call has returned or raised.
FairSlots == {1, 2}
FairRequests ==
    {m \in CreateInvitationRequests : ~m.auto_accept /\ ~m.multi_use}
        \cup InvitationGetListRequests
        \cup SendCredRequests
        \cup {m \in RequestPresRequests : m.proof_request = [name |-> "proof-req"]}
        \cup {m \in CredGetListRequests :
                 m.connection_id = None /\ m.cred_def_id = None /\ m.schema_id = None}
        \cup {m \in PresGetListRequests : m.connection_id = None /\ m.verified = None}

InitFair ==
    /\ conns = InitialConnections
    /\ exch = [cred |-> InitialCredExchanges, pres |-> InitialPresExchanges]
    /\ pc = [p \in FairSlots |-> "idle"]
    /\ ctx = [p \in FairSlots |-> [message |-> NoMessage, admin |-> FALSE]]
    /\ loc = [p \in FairSlots |-> NoLocals]
    /\ out = [p \in FairSlots |-> <<>>]

\* slot p takes its one request
ReceiveOnce(p) ==
    /\ pc[p] = "idle"
    /\ \E m \in FairRequests : m.id = "req-1" /\ ReceiveFrom(p, {m})

\* the invocation in slot p goes on from its await
Resume(p) ==
    \/ CreateInvitation_Create(p)
    \/ CreateInvitation_SendReply(p)
    \/ InvitationGetList_Query(p)
    \/ InvitationGetList_RetrieveInvitation(p)
    \/ InvitationGetList_SendReply(p)
    \/ SendCred_Lookup(p)
    \/ SendCred_PrepareSend(p)
    \/ SendCred_Send(p)
    \/ SendCred_SendReply(p)
    \/ RequestPres_Lookup(p)
    \/ RequestPres_CreateExchange(p)
    \/ RequestPres_Send(p)
    \/ RequestPres_SendReply(p)
    \/ CredGetList_Query(p)
    \/ CredGetList_SendReply(p)
    \/ PresGetList_Query(p)
    \/ PresGetList_SendReply(p)
    \/ Raise(p)

NextFair == \E p \in DOMAIN pc : ReceiveOnce(p) \/ Resume(p)

SpecFair ==
    InitFair /\ [][NextFair]_vars /\ \A p \in FairSlots : WF_vars(Resume(p))

\* slot p ended in ReportAndStop: one Problem Report, nothing to a peer
ReportAndStop(p) ==
    /\ Len(out[p]) = 1
    /\ out[p][1].ev = "reply"
    /\ out[p][1].what = PROBLEM_REPORT
\* slot p ended in End: one peer message and one exchange-record reply
End(p) ==
    /\ Len(PeerSends(p)) = 1
    /\ Len(Replies(p)) = 1
    /\ Replies(p)[1].what \in {ISSUER_ISSUER_CRED_EXCHANGE, ISSUER_ISSUER_PRES_EXCHANGE}
    /\ out[p][Len(out[p])].ev = "reply"

\* C16: under any interleaving with another invocation, every authorized
\* invocation eventually terminates; if none of its collaborator calls raised
\* it has then sent exactly one reply to the caller and at most one message
\* to a peer, and a SendCred / RequestPres invocation is in exactly one of
\* ReportAndStop and End.
Thm_C16_TerminatesWithOneReply ==
    /\ \A p \in FairSlots : (pc[p] \notin Terminal) ~> (pc[p] \in {"done", "raised"})
    /\ [](\A p \in FairSlots :
            pc[p] = "done" =>
                /\ Raises(p) = <<>>
                /\ Len(Replies(p)) = 1
                /\ Len(PeerSends(p)) <= 1
                /\ ctx[p].message.type \in GuardedHandlers =>
                      /\ ReportAndStop(p) \/ End(p)
                      /\ ~(ReportAndStop(p) /\ End(p)))

Wit_C16_TerminatesWithOneReply ==
    /\ pc[1] = "done" /\ pc[2] = "done"
    /\ ctx[1].message.type = ISSUER_SEND_CREDENTIAL /\ End(1)
    /\ ctx[2].message.type = ISSUER_REQUEST_PRESENTATION /\ ReportAndStop(2)
    /\ Len(out[1]) = 3

====
